---- MODULE Spec2Model ----
(***************************************************************************)
(* Hisebi / Dor-Dam personal finance tracker.                              *)
(*                                                                         *)
(* Two application shells live in the repository and are modelled by one   *)
(* state machine whose variable `variant` says which one is running:       *)
(*   "App"   - src/App.tsx   (transactions, debts, profile, AI insights)   *)
(*   "index" - src/index.tsx (transactions, debts, shopping list, profile, *)
(*             rendered inside React.StrictMode)                           *)
(* The React state of the shell, the localStorage slot, the mount effects  *)
(* and every event handler are modelled; the derived views (useMemo) are   *)
(* operators computed the way the code computes them.                      *)
(***************************************************************************)
EXTENDS Integers, Sequences, FiniteSets, TLC

VARIABLES
    variant,        \* "App" (src/App.tsx) or "index" (src/index.tsx)
    strict,         \* TRUE: development build, StrictMode runs mount effects twice
    pc,             \* "load" | "save" | "rerender" | "ready": position in the mount sequence
    pass,           \* 1 or 2: which run of the mount effects
    queued,         \* state updates queued by the load effect, applied at the next render
    transactions,   \* useState<Transaction[]>
    debts,          \* useState<Debt[]>
    shoppingItems,  \* useState<ShoppingItem[]>   (index only; stays empty in App)
    profile,        \* useState<UserProfile>
    blob,           \* the localStorage slot of the variant
    aiInsight,      \* useState<AIInsight | null>  (App only)
    isLoadingAI,    \* useState(false)             (App only)
    inflight,       \* invocations of getFinancialInsights awaiting the service
    last            \* the last event handled and its input (history, for the properties)

vars == <<variant, strict, pc, pass, queued, transactions, debts, shoppingItems,
          profile, blob, aiInsight, isLoadingAI, inflight, last>>

snapshot == <<transactions, debts, shoppingItems, profile>>

-----------------------------------------------------------------------------
(* Bounds of the exploration.                                              *)

\* most records (transactions + debts + shopping items) held at once
MaxRecords == 2

\* largest value Date.now() takes
MaxClock == 2

\* most invocations of the insight service awaiting an answer
MaxInflight == 2

-----------------------------------------------------------------------------
(* Generic helpers.                                                        *)

Range(s) == {s[i] : i \in 1..Len(s)}

Min(a, b) == IF a <= b THEN a ELSE b

\* the running sum of Array.prototype.reduce((s, x) => s + x, 0), left to right
RECURSIVE SumSeq(_)
SumSeq(s) ==
    IF s = <<>> THEN 0 ELSE LET n == Len(s) IN SumSeq(SubSeq(s, 1, n - 1)) + s[n]

\* Array.prototype.slice(0, k)
SliceFirst(s, k) == SubSeq(s, 1, Min(k, Len(s)))

\* Array.prototype.slice(-k)
SliceLast(s, k) == SubSeq(s, Len(s) - Min(k, Len(s)) + 1, Len(s))

-----------------------------------------------------------------------------
(* Form controls.  What the user typed into a control is `typed`; the      *)
(* handlers read the control's value, which for <input type="number"> is   *)
(* the typed text when it is a number and "" otherwise.                    *)

NumericTexts == {"10", "-5", "0", "2", "20000"}

\* Number(text)
NumberOf(text) ==
    CASE text = "10" -> 10
      [] text = "-5" -> 0 - 5
      [] text = "0" -> 0
      [] text = "2" -> 2
      [] text = "20000" -> 20000
      [] text = "" -> 0

\* isNaN(Number(text))
IsNaNNumber(text) == text /= "" /\ text \notin NumericTexts

\* value of an <input type="number"> in which `typed` was typed
NumberInputValue(typed) == IF typed \in NumericTexts THEN typed ELSE ""

\* constraint validation of an <input type="number">: badInput, valueMissing
NumberInputValid(required, typed) ==
    /\ typed = "" \/ typed \in NumericTexts
    /\ required => NumberInputValue(typed) /= ""

\* constraint validation of an <input type="text">: valueMissing
TextInputValid(required, typed) == required => typed /= ""

\* new Date(date).getTime(); an empty date input gives an Invalid Date (NaN)
IsInvalidDate(date) == date = ""

GetTime(date) ==
    CASE date = "2024-01-01" -> 1
      [] date = "2024-01-02" -> 2
      [] date = "2024-01-03" -> 3

-----------------------------------------------------------------------------
(* Records.  A nullable number (qty, price) is <<>> for null and <<n>> for *)
(* the number n.                                                           *)

DefaultProfile == [name |-> "Guest User", monthlyBudget |-> 15000]

\* identifiers crypto.randomUUID() / Math.random().toString(36).substr(2, 9) may return
Ids == {"a", "b"}

NoForm == [kind |-> "none"]

-----------------------------------------------------------------------------
(* Persistence.  The slot holds nothing ("none"), a text JSON.parse        *)
(* rejects ("corrupt"), the text "null", or the text of an object; of an   *)
(* object the model keeps the parsed value: the set `has` of its keys and  *)
(* the value of each key (a key not in `has` is undefined).                *)

NoBlob == [kind |-> "none", has |-> {}, transactions |-> <<>>, debts |-> <<>>,
           shoppingItems |-> <<>>, profile |-> DefaultProfile]

CorruptBlob == [NoBlob EXCEPT !.kind = "corrupt"]

NullBlob == [NoBlob EXCEPT !.kind = "null"]

\* the keys each variant writes
SavedKeys(v) ==
    IF v = "App" THEN {"transactions", "debts", "profile"}
    ELSE {"transactions", "debts", "shoppingItems", "profile"}

\* a serialization that leaves the debts out
StringifyWithoutDebts(v, t, d, s, p) ==
    [kind |-> "object", has |-> SavedKeys(v), transactions |-> t, debts |-> <<>>,
     shoppingItems |-> IF v = "App" THEN <<>> ELSE s, profile |-> p]

\* JSON.stringify({ transactions, debts, [shoppingItems,] profile })
Stringify(v, t, d, s, p) ==
    [kind |-> "object", has |-> SavedKeys(v), transactions |-> t, debts |-> d,
     shoppingItems |-> IF v = "App" THEN <<>> ELSE s, profile |-> p]

\* JSON.parse(saved) returns and the fields can be read off its result
ParsesToObject(b) == b.kind = "object"

\* the setState calls of the load effect: parsed.x || default
LoadedState(v, b) ==
    [transactions |-> IF "transactions" \in b.has THEN b.transactions ELSE <<>>,
     debts |-> IF "debts" \in b.has THEN b.debts ELSE <<>>,
     shoppingItems |-> IF v = "index" /\ "shoppingItems" \in b.has
                       THEN b.shoppingItems ELSE <<>>,
     profile |-> IF "profile" \in b.has THEN b.profile ELSE DefaultProfile]

\* load effect: localStorage.getItem, JSON.parse in try/catch, setState calls
LoadEffect ==
    /\ pc = "load"
    /\ queued' = IF blob.kind /= "none" /\ ParsesToObject(blob)
                 THEN Append(queued, LoadedState(variant, blob))
                 ELSE queued
    /\ pc' = "save"
    /\ UNCHANGED <<variant, strict, pass, transactions, debts, shoppingItems, profile,
                   blob, aiInsight, isLoadingAI, inflight, last>>

\* save effect on mount: writes the state of the first render
SaveEffect ==
    /\ pc = "save"
    /\ blob' = Stringify(variant, transactions, debts, shoppingItems, profile)
    /\ IF strict /\ pass = 1
       THEN pc' = "load" /\ pass' = 2
       ELSE pc' = "rerender" /\ pass' = pass
    /\ UNCHANGED <<variant, strict, queued, transactions, debts, shoppingItems, profile,
                   aiInsight, isLoadingAI, inflight, last>>

\* the render after the mount effects: the queued updates are applied in order
\* (the last one wins) and the save effect runs again because its deps changed
Rerender ==
    /\ pc = "rerender"
    /\ IF queued = <<>>
       THEN UNCHANGED <<transactions, debts, shoppingItems, profile, blob>>
       ELSE LET u == queued[Len(queued)] IN
            /\ transactions' = u.transactions
            /\ debts' = u.debts
            /\ shoppingItems' = u.shoppingItems
            /\ profile' = u.profile
            /\ blob' = Stringify(variant, u.transactions, u.debts, u.shoppingItems, u.profile)
    /\ queued' = <<>>
    /\ pc' = "ready"
    /\ UNCHANGED <<variant, strict, pass, aiInsight, isLoadingAI, inflight, last>>

-----------------------------------------------------------------------------
(* Transactions.                                                           *)

\* the same form with the amount input not marked required
TransactionFormAmountOptional(f) == NumberInputValid(FALSE, f.amount)

\* the New Entry / Add Transaction form passes the browser's constraint validation:
\* its amount is <input type="number" required>
TransactionFormValid(f) == NumberInputValid(TRUE, f.amount)

\* TransactionForm.handleSubmit: if (!amount || isNaN(Number(amount))) return;
\* the onSubmit of src/index.tsx has no check of its own
TransactionHandlerAccepts(v, f) ==
    \/ v = "index"
    \/ ~(NumberInputValue(f.amount) = "" \/ IsNaNNumber(NumberInputValue(f.amount)))

\* { type, amount: Number(amount), category, date, note, id }
NewTransaction(f, id) ==
    [id |-> id, type |-> f.type, amount |-> NumberOf(NumberInputValue(f.amount)),
     category |-> f.category, date |-> f.date, note |-> f.note]

\* an add that puts the new record at the end
AppendTransaction(t, ts) == ts \o <<t>>

\* addTransaction: setTransactions([newT, ...transactions])
AddTransaction(t, ts) == <<t>> \o ts

\* submit of the transaction form, then the save effect
SubmitTransaction(f, id) ==
    /\ pc = "ready"
    /\ last' = [op |-> "submitTransaction", idx |-> 0, form |-> f]
    /\ IF TransactionFormValid(f) /\ TransactionHandlerAccepts(variant, f)
       THEN /\ transactions' = AddTransaction(NewTransaction(f, id), transactions)
            /\ blob' = Stringify(variant, transactions', debts, shoppingItems, profile)
       ELSE UNCHANGED <<transactions, blob>>
    /\ UNCHANGED <<variant, strict, pc, pass, queued, debts, shoppingItems, profile,
                   aiInsight, isLoadingAI, inflight>>

\* transactions.filter(t => t.id !== id)
RemoveById(s, id) == SelectSeq(s, LAMBDA r : r.id /= id)

\* click on the delete button of the i-th transaction row, then the save effect
DeleteTransaction(i) ==
    /\ pc = "ready"
    /\ i \in 1..Len(transactions)
    /\ last' = [op |-> "deleteTransaction", idx |-> i, form |-> NoForm]
    /\ transactions' = RemoveById(transactions, transactions[i].id)
    /\ blob' = Stringify(variant, transactions', debts, shoppingItems, profile)
    /\ UNCHANGED <<variant, strict, pc, pass, queued, debts, shoppingItems, profile,
                   aiInsight, isLoadingAI, inflight>>

-----------------------------------------------------------------------------
(* Debts (Dhar).                                                           *)

\* person is <input required>, amount is <input type="number" required>
DebtFormValid(f) == TextInputValid(TRUE, f.person) /\ NumberInputValid(TRUE, f.amount)

\* DharForm.handleSubmit: if (!person || !amount) return;
\* the onSubmit of src/index.tsx has no check of its own
DebtHandlerAccepts(v, f) ==
    \/ v = "index"
    \/ ~(f.person = "" \/ NumberInputValue(f.amount) = "")

\* { person, amount: Number(amount), date, note, id, status: 'pending' }
NewDebt(f, id) ==
    [id |-> id, person |-> f.person, amount |-> NumberOf(NumberInputValue(f.amount)),
     date |-> f.date, note |-> f.note, status |-> "pending"]

\* addDebt: setDebts([newD, ...debts])
AddDebt(d, ds) == <<d>> \o ds

\* submit of the Dhar form, then the save effect
SubmitDebt(f, id) ==
    /\ pc = "ready"
    /\ last' = [op |-> "submitDebt", idx |-> 0, form |-> f]
    /\ IF DebtFormValid(f) /\ DebtHandlerAccepts(variant, f)
       THEN /\ debts' = AddDebt(NewDebt(f, id), debts)
            /\ blob' = Stringify(variant, transactions, debts', shoppingItems, profile)
       ELSE UNCHANGED <<debts, blob>>
    /\ UNCHANGED <<variant, strict, pc, pass, queued, transactions, shoppingItems, profile,
                   aiInsight, isLoadingAI, inflight>>

\* d.status === 'pending' ? 'repaid' : 'pending'
Flip(status) == IF status = "pending" THEN "repaid" ELSE "pending"

\* debts.map(d => d.id === id ? { ...d, status: flipped } : d)
ToggleStatusById(ds, id) ==
    [k \in 1..Len(ds) |-> IF ds[k].id = id
                          THEN [ds[k] EXCEPT !.status = Flip(ds[k].status)]
                          ELSE ds[k]]

\* click on the toggle button of the i-th debt card, then the save effect
ToggleDebtStatus(i) ==
    /\ pc = "ready"
    /\ i \in 1..Len(debts)
    /\ last' = [op |-> "toggleDebtStatus", idx |-> i, form |-> NoForm]
    /\ debts' = ToggleStatusById(debts, debts[i].id)
    /\ blob' = Stringify(variant, transactions, debts', shoppingItems, profile)
    /\ UNCHANGED <<variant, strict, pc, pass, queued, transactions, shoppingItems, profile,
                   aiInsight, isLoadingAI, inflight>>

\* click on the delete button of the i-th debt card, then the save effect
DeleteDebt(i) ==
    /\ pc = "ready"
    /\ i \in 1..Len(debts)
    /\ last' = [op |-> "deleteDebt", idx |-> i, form |-> NoForm]
    /\ debts' = RemoveById(debts, debts[i].id)
    /\ blob' = Stringify(variant, transactions, debts', shoppingItems, profile)
    /\ UNCHANGED <<variant, strict, pc, pass, queued, transactions, shoppingItems, profile,
                   aiInsight, isLoadingAI, inflight>>

-----------------------------------------------------------------------------
(* Profile.                                                                *)

\* src/index.tsx: name is <input required>, budget is <input type="number" required>;
\* src/App.tsx: neither is required
ProfileFormValid(v, f) ==
    /\ TextInputValid(v = "index", f.name)
    /\ NumberInputValid(v = "index", f.budget)

\* setProfile({ name, monthlyBudget: Number(budget) }), then the save effect
SaveProfile(f) ==
    /\ pc = "ready"
    /\ last' = [op |-> "saveProfile", idx |-> 0, form |-> f]
    /\ IF ProfileFormValid(variant, f)
       THEN /\ profile' = [name |-> f.name,
                           monthlyBudget |-> NumberOf(NumberInputValue(f.budget))]
            /\ blob' = Stringify(variant, transactions, debts, shoppingItems, profile')
       ELSE UNCHANGED <<profile, blob>>
    /\ UNCHANGED <<variant, strict, pc, pass, queued, transactions, debts, shoppingItems,
                   aiInsight, isLoadingAI, inflight>>

-----------------------------------------------------------------------------
(* Shopping list (src/index.tsx only).                                     *)

\* name is <input required>; qty and price are <input type="number" step="any">
ShopFormValid(f) ==
    /\ TextInputValid(TRUE, f.name)
    /\ NumberInputValid(FALSE, f.qty)
    /\ NumberInputValid(FALSE, f.price)

\* if (!name) return;
ShopHandlerAccepts(f) == f.name /= ""

\* fd.get(k) ? Number(fd.get(k)) : null
NullableNumber(text) == IF text = "" THEN <<>> ELSE <<NumberOf(text)>>

\* (fd.get('uom') as string) || null
NullableText(text) == IF text = "" THEN <<>> ELSE <<text>>

\* the item the New Goods Request form builds
NewShoppingItem(f, id, now) ==
    [id |-> id, name |-> f.name,
     qty |-> NullableNumber(NumberInputValue(f.qty)),
     price |-> NullableNumber(NumberInputValue(f.price)),
     uom |-> NullableText(f.uom), completed |-> FALSE, createdAt |-> now]

\* setShoppingItems(prev => [item, ...prev])
AddShoppingItem(item, items) == <<item>> \o items

\* submit of the New Goods Request form at time `now` (Date.now() does not run
\* backwards), then the save effect
SubmitShopItem(f, id, now) ==
    /\ pc = "ready"
    /\ variant = "index"
    /\ \A k \in 1..Len(shoppingItems) : shoppingItems[k].createdAt <= now
    /\ last' = [op |-> "submitShopItem", idx |-> 0, form |-> f]
    /\ IF ShopFormValid(f) /\ ShopHandlerAccepts(f)
       THEN /\ shoppingItems' = AddShoppingItem(NewShoppingItem(f, id, now), shoppingItems)
            /\ blob' = Stringify(variant, transactions, debts, shoppingItems', profile)
       ELSE UNCHANGED <<shoppingItems, blob>>
    /\ UNCHANGED <<variant, strict, pc, pass, queued, transactions, debts, profile,
                   aiInsight, isLoadingAI, inflight>>

\* a map that marks the item completed instead of flipping the flag
MarkCompletedById(items, id) ==
    [k \in 1..Len(items) |-> IF items[k].id = id
                             THEN [items[k] EXCEPT !.completed = TRUE]
                             ELSE items[k]]

\* prev.map(item => item.id === id ? { ...item, completed: !item.completed } : item)
ToggleCompletedById(items, id) ==
    [k \in 1..Len(items) |-> IF items[k].id = id
                             THEN [items[k] EXCEPT !.completed = ~items[k].completed]
                             ELSE items[k]]

\* toggleShopItem(item.id) for the i-th stored item, then the save effect; `last`
\* remembers the list the click found and, when the click before it was on the
\* same card (again), the list that earlier click found (origin)
ToggleShopItem(i) ==
    /\ pc = "ready"
    /\ variant = "index"
    /\ i \in 1..Len(shoppingItems)
    /\ LET again == last.op = "toggleShopItem" /\ last.idx = i IN
       last' = [op |-> "toggleShopItem", idx |-> i,
                form |-> [kind |-> "before", items |-> shoppingItems, again |-> again,
                          origin |-> IF again THEN last.form.items ELSE shoppingItems]]
    /\ shoppingItems' = ToggleCompletedById(shoppingItems, shoppingItems[i].id)
    /\ blob' = Stringify(variant, transactions, debts, shoppingItems', profile)
    /\ UNCHANGED <<variant, strict, pc, pass, queued, transactions, debts, profile,
                   aiInsight, isLoadingAI, inflight>>

\* deleteShopItem(item.id) for the i-th stored item, then the save effect
DeleteShopItem(i) ==
    /\ pc = "ready"
    /\ variant = "index"
    /\ i \in 1..Len(shoppingItems)
    /\ last' = [op |-> "deleteShopItem", idx |-> i, form |-> NoForm]
    /\ shoppingItems' = RemoveById(shoppingItems, shoppingItems[i].id)
    /\ blob' = Stringify(variant, transactions, debts, shoppingItems', profile)
    /\ UNCHANGED <<variant, strict, pc, pass, queued, transactions, debts, profile,
                   aiInsight, isLoadingAI, inflight>>

\* a filter that drops the first completed item only
RemoveFirstCompleted(items) ==
    IF \A k \in 1..Len(items) : ~items[k].completed THEN items
    ELSE LET first == CHOOSE k \in 1..Len(items) :
                          /\ items[k].completed
                          /\ \A j \in 1..(k - 1) : ~items[j].completed
         IN SubSeq(items, 1, first - 1) \o SubSeq(items, first + 1, Len(items))

\* prev.filter(item => !item.completed)
RemoveCompleted(items) == SelectSeq(items, LAMBDA it : ~it.completed)

\* shoppingItems.filter(i => i.completed).length
CompletedCount(items) == Len(SelectSeq(items, LAMBDA it : it.completed))

\* the Clear Purchased button (rendered when completedCount > 0), then the save effect
ClearCompleted ==
    /\ pc = "ready"
    /\ variant = "index"
    /\ CompletedCount(shoppingItems) > 0
    /\ last' = [op |-> "clearCompleted", idx |-> 0, form |-> NoForm]
    /\ shoppingItems' = RemoveCompleted(shoppingItems)
    /\ blob' = Stringify(variant, transactions, debts, shoppingItems', profile)
    /\ UNCHANGED <<variant, strict, pc, pass, queued, transactions, debts, profile,
                   aiInsight, isLoadingAI, inflight>>

-----------------------------------------------------------------------------
(* Insight service (src/App.tsx, src/services/geminiService.ts).           *)

NullInsight == [isNull |-> TRUE, hasTips |-> FALSE, tips |-> <<>>, alert |-> ""]

\* the object of the catch block
FallbackInsight ==
    [isNull |-> FALSE, hasTips |-> TRUE,
     tips |-> <<"Review your frequent small expenses",
                "Focus on clearing your highest-interest Dhar first",
                "Consider setting a slightly tighter budget goal">>,
     alert |-> "AI Insights currently limited. Showing standard recommendations."]

\* a body that follows the response schema
ModelInsight ==
    [isNull |-> FALSE, hasTips |-> TRUE, tips |-> <<"tip 1", "tip 2", "tip 3">>,
     alert |-> ""]

\* the JSON body {"alert": "x"}: an object without tips
NoTipsInsight == [isNull |-> FALSE, hasTips |-> FALSE, tips |-> <<>>, alert |-> "x"]

\* new GoogleGenAI({ apiKey: process.env.API_KEY }) returns, or throws (no API key)
ClientOutcomes == {"ok", "throws"}

\* what ai.models.generateContent does: it rejects (network error), or resolves
\* with an empty text, a text that is not JSON, or the JSON text of an object
\* with tips, of an object without tips, or of null
ServiceAnswers == {"rejects", "empty", "notJson", "tips", "noTips", "null"}

\* the answers the spec calls failures
FailureAnswers == {"rejects", "empty", "notJson", "noTips", "null"}

\* the try/catch of getFinancialInsights: what the promise resolves to
InsightOf(answer) ==
    CASE answer = "rejects" -> FallbackInsight
      [] answer = "empty" -> FallbackInsight
      [] answer = "notJson" -> FallbackInsight
      [] answer = "tips" -> ModelInsight
      [] answer = "noTips" -> NoTipsInsight
      [] answer = "null" -> NullInsight

\* JSON.stringify(data.transactions.slice(-10)) of the prompt
PromptTransactions(ts) == SliceLast(ts, 10)

\* a button without the disabled attribute
InsightButtonRendered == aiInsight.isNull

\* a button that is offered whatever aiInsight holds
InsightButtonAlways == ~isLoadingAI

\* the button is rendered while !aiInsight and enabled while !isLoadingAI
InsightButtonEnabled == aiInsight.isNull /\ ~isLoadingAI

\* fetchAIInsights up to its await: setIsLoadingAI(true), then getFinancialInsights
\* builds the client and the prompt and calls the service; when the constructor
\* throws the returned promise is rejected and fetchAIInsights never continues;
\* `last` keeps the transactions the prompt was built from (recent)
FetchAIInsights(client) ==
    /\ pc = "ready"
    /\ variant = "App"
    /\ InsightButtonEnabled
    /\ isLoadingAI' = TRUE
    /\ IF client = "throws"
       THEN /\ inflight' = inflight
            /\ last' = [op |-> "fetchAIInsights", idx |-> 0,
                        form |-> [kind |-> "insight", settled |-> "rejected",
                                  failure |-> TRUE, value |-> NullInsight,
                                  recent |-> <<>>]]
       ELSE /\ inflight' = Append(inflight, "call")
            /\ last' = [op |-> "fetchAIInsights", idx |-> 0,
                        form |-> [kind |-> "insight", settled |-> "pending",
                                  failure |-> FALSE, value |-> NullInsight,
                                  recent |-> PromptTransactions(transactions)]]
    /\ UNCHANGED <<variant, strict, pc, pass, queued, transactions, debts, shoppingItems,
                   profile, blob, aiInsight>>

\* the service answers the i-th pending invocation; fetchAIInsights continues:
\* setAiInsight(insights); setIsLoadingAI(false)
InsightSettles(i, answer) ==
    /\ pc = "ready"
    /\ i \in 1..Len(inflight)
    /\ aiInsight' = InsightOf(answer)
    /\ isLoadingAI' = FALSE
    /\ inflight' = SubSeq(inflight, 1, i - 1) \o SubSeq(inflight, i + 1, Len(inflight))
    /\ last' = [op |-> "insightSettled", idx |-> i,
                form |-> [kind |-> "insight", settled |-> "resolved",
                          failure |-> answer \in FailureAnswers,
                          value |-> InsightOf(answer)]]
    /\ UNCHANGED <<variant, strict, pc, pass, queued, transactions, debts, shoppingItems,
                   profile, blob>>

-----------------------------------------------------------------------------
(* CSV export (src/App.tsx).  A line of the file is kept as the sequence   *)
(* of the pieces its commas separate, which is what a reader of the file   *)
(* takes for its fields.                                                   *)

\* the pieces of a text between its commas
Pieces(text) ==
    CASE text = "rice, dal" -> <<"rice", " dal">>
      [] OTHER -> <<text>>

\* e.join(","): the texts of the values, a comma between them
JoinComma(values) ==
    LET RECURSIVE Join(_)
        Join(k) == IF k = 0 THEN <<>> ELSE Join(k - 1) \o Pieces(values[k])
    IN Join(Len(values))

\* [t.date, t.type, t.category, t.amount, t.note].join(",")
CsvRow(t) == JoinComma(<<t.date, t.type, t.category, ToString(t.amount), t.note>>)

\* headers.join(",") + "\n" + rows.map(e => e.join(",")).join("\n"), by lines
CsvContent(ts) ==
    <<JoinComma(<<"Date", "Type", "Category", "Amount", "Note">>)>>
    \o [k \in 1..Len(ts) |-> CsvRow(ts[k])]

\* click on Export CSV: the file is built and offered for download
ExportToCSV ==
    /\ pc = "ready"
    /\ variant = "App"
    /\ last' = [op |-> "exportToCSV", idx |-> 0,
                form |-> [kind |-> "csv", lines |-> CsvContent(transactions)]]
    /\ UNCHANGED <<variant, strict, pc, pass, queued, transactions, debts, shoppingItems,
                   profile, blob, aiInsight, isLoadingAI, inflight>>

-----------------------------------------------------------------------------
(* The program: initial states and inputs.                                 *)

StoredTransaction ==
    [id |-> "a", type |-> "expense", amount |-> 10, category |-> "Food",
     date |-> "2024-01-02", note |-> ""]

StoredDebt ==
    [id |-> "a", person |-> "Rahim", amount |-> 10, date |-> "2024-01-02",
     note |-> "", status |-> "repaid"]

StoredItem ==
    [id |-> "a", name |-> "Rice", qty |-> <<2>>, price |-> <<>>, uom |-> <<>>,
     completed |-> FALSE, createdAt |-> 1]

StoredProfile == [name |-> "Rakib", monthlyBudget |-> 20000]

\* what the slot may hold when the application starts
InitialBlobs(v) ==
    { NoBlob, CorruptBlob, NullBlob,
      [NoBlob EXCEPT !.kind = "object", !.has = {"transactions"},
                     !.transactions = <<StoredTransaction>>],
      [NoBlob EXCEPT !.kind = "object", !.has = {"debts", "profile"},
                     !.debts = <<StoredDebt>>, !.profile = StoredProfile],
      Stringify(v, <<StoredTransaction>>, <<StoredDebt>>,
                IF v = "index" THEN <<StoredItem>> ELSE <<>>, StoredProfile) }

Init ==
    /\ variant \in {"App", "index"}
    /\ strict \in (IF variant = "index" THEN BOOLEAN ELSE {FALSE})
    /\ pc = "load"
    /\ pass = 1
    /\ queued = <<>>
    /\ transactions = <<>>
    /\ debts = <<>>
    /\ shoppingItems = <<>>
    /\ profile = DefaultProfile
    /\ blob \in InitialBlobs(variant)
    /\ aiInsight = NullInsight
    /\ isLoadingAI = FALSE
    /\ inflight = <<>>
    /\ last = [op |-> "mount", idx |-> 0, form |-> blob]

TxForms ==
    { [type |-> "expense", amount |-> a, category |-> "Food", date |-> "2024-01-02",
       note |-> ""] : a \in {"", "abc", "10", "-5"} }
    \cup { [type |-> "income", amount |-> "10", category |-> "Salary",
            date |-> "2024-01-01", note |-> ""] }

DebtForms ==
    { [person |-> "Rahim", amount |-> a, date |-> "2024-01-02", note |-> ""] :
        a \in {"", "abc", "10"} }
    \cup { [person |-> "", amount |-> "10", date |-> "2024-01-02", note |-> ""] }

ShopForms ==
    { [name |-> "Rice", qty |-> "", price |-> "10", uom |-> "kg"],
      [name |-> "Rice", qty |-> "0", price |-> "10", uom |-> ""],
      [name |-> "Rice", qty |-> "2", price |-> "", uom |-> ""],
      [name |-> "Rice", qty |-> "abc", price |-> "10", uom |-> ""],
      [name |-> "", qty |-> "2", price |-> "10", uom |-> ""] }

ProfileForms ==
    { [name |-> "Rakib", budget |-> "20000"], [name |-> "", budget |-> ""] }

RecordCount == Len(transactions) + Len(debts) + Len(shoppingItems)

Next ==
    \/ LoadEffect
    \/ SaveEffect
    \/ Rerender
    \/ \E f \in TxForms, id \in Ids : RecordCount < MaxRecords /\ SubmitTransaction(f, id)
    \/ \E i \in 1..MaxRecords : DeleteTransaction(i)
    \/ \E f \in DebtForms, id \in Ids : RecordCount < MaxRecords /\ SubmitDebt(f, id)
    \/ \E i \in 1..MaxRecords : ToggleDebtStatus(i)
    \/ \E i \in 1..MaxRecords : DeleteDebt(i)
    \/ \E f \in ProfileForms : SaveProfile(f)
    \/ \E f \in ShopForms, id \in Ids, now \in 1..MaxClock :
          RecordCount < MaxRecords /\ SubmitShopItem(f, id, now)
    \/ \E i \in 1..MaxRecords : ToggleShopItem(i)
    \/ \E i \in 1..MaxRecords : DeleteShopItem(i)
    \/ ClearCompleted
    \/ \E c \in ClientOutcomes : Len(inflight) < MaxInflight /\ FetchAIInsights(c)
    \/ \E i \in 1..MaxInflight, a \in ServiceAnswers : InsightSettles(i, a)

Spec == Init /\ [][Next]_vars

-----------------------------------------------------------------------------
(* Derived views (useMemo).                                                *)

Amounts(s) == [k \in 1..Len(s) |-> s[k].amount]

\* totals whose expense counts every transaction
TotalsSumAll(ts, ds) ==
    LET income == SumSeq(Amounts(SelectSeq(ts, LAMBDA t : t.type = "income")))
        expense == SumSeq(Amounts(ts))
        pendingDebt == SumSeq(Amounts(SelectSeq(ds, LAMBDA d : d.status = "pending")))
    IN [income |-> income, expense |-> expense, balance |-> income - expense,
        pendingDebt |-> pendingDebt]

\* totals: filter by type / status, reduce((s, t) => s + t.amount, 0)
Totals(ts, ds) ==
    LET income == SumSeq(Amounts(SelectSeq(ts, LAMBDA t : t.type = "income")))
        expense == SumSeq(Amounts(SelectSeq(ts, LAMBDA t : t.type = "expense")))
        pendingDebt == SumSeq(Amounts(SelectSeq(ds, LAMBDA d : d.status = "pending")))
    IN [income |-> income, expense |-> expense, balance |-> income - expense,
        pendingDebt |-> pendingDebt]

\* { ...t, source: 'transaction' }
FeedEntryOfTransaction(t) ==
    [id |-> t.id, type |-> t.type, amount |-> t.amount, category |-> t.category,
     date |-> t.date, note |-> t.note, source |-> "transaction"]

\* { id, type: 'debt', amount, category: 'Dhar', date, note: d.person, source: 'debt' }
FeedEntryOfDebt(d) ==
    [id |-> d.id, type |-> "debt", amount |-> d.amount, category |-> "Dhar",
     date |-> d.date, note |-> d.person, source |-> "debt"]

\* a merge that takes the pending debts only
CombinedPendingOnly(ts, ds) ==
    [k \in 1..Len(ts) |-> FeedEntryOfTransaction(ts[k])]
    \o LET pending == SelectSeq(ds, LAMBDA d : d.status = "pending") IN
       [k \in 1..Len(pending) |-> FeedEntryOfDebt(pending[k])]

\* [...transactions.map(...), ...debts.map(...)]
Combined(ts, ds) ==
    [k \in 1..Len(ts) |-> FeedEntryOfTransaction(ts[k])]
    \o [k \in 1..Len(ds) |-> FeedEntryOfDebt(ds[k])]

\* (a, b) => new Date(b.date).getTime() - new Date(a.date).getTime(); with an
\* Invalid Date the difference is NaN, which Array.prototype.sort reads as +0
CompareByDateDesc(a, b) ==
    IF IsInvalidDate(a.date) \/ IsInvalidDate(b.date) THEN 0
    ELSE GetTime(b.date) - GetTime(a.date)

(* Array.prototype.sort is stable, and with a comparator that is not a     *)
(* consistent ordering (the NaN case) its result is implementation-        *)
(* defined.  Two engines are modelled; they agree whenever the comparator  *)
(* is consistent.                                                          *)
Engines == {"insertion", "timsort"}

\* an insertion that moves the new element ahead of its equals
RECURSIVE InsertPastEqual(_, _)
InsertPastEqual(sorted, x) ==
    IF sorted = <<>> THEN <<x>>
    ELSE LET n == Len(sorted) IN
         IF CompareByDateDesc(sorted[n], x) >= 0
         THEN Append(InsertPastEqual(SubSeq(sorted, 1, n - 1), x), sorted[n])
         ELSE Append(sorted, x)

\* engine "insertion": stable insertion sort, scanning from the right
RECURSIVE InsertFromRight(_, _)
InsertFromRight(sorted, x) ==
    IF sorted = <<>> THEN <<x>>
    ELSE LET n == Len(sorted) IN
         IF CompareByDateDesc(sorted[n], x) > 0
         THEN Append(InsertFromRight(SubSeq(sorted, 1, n - 1), x), sorted[n])
         ELSE Append(sorted, x)

RECURSIVE InsertionSort(_)
InsertionSort(s) ==
    IF s = <<>> THEN <<>>
    ELSE InsertFromRight(InsertionSort(SubSeq(s, 1, Len(s) - 1)), s[Len(s)])

\* engine "timsort" (V8, arrays shorter than 64): the leading run is counted
\* and, when strictly descending, reversed; the rest is inserted by binary search
RECURSIVE CountRun(_, _, _)
CountRun(s, k, descending) ==
    IF k > Len(s) THEN Len(s)
    ELSE LET order == CompareByDateDesc(s[k], s[k - 1]) IN
         IF (descending /\ order >= 0) \/ (~descending /\ order < 0)
         THEN k - 1
         ELSE CountRun(s, k + 1, descending)

Reverse(s) == [k \in 1..Len(s) |-> s[Len(s) + 1 - k]]

RECURSIVE BinaryPosition(_, _, _, _)
BinaryPosition(s, pivot, left, right) ==
    IF left >= right THEN left
    ELSE LET mid == left + ((right - left) \div 2) IN
         IF CompareByDateDesc(pivot, s[mid + 1]) < 0
         THEN BinaryPosition(s, pivot, left, mid)
         ELSE BinaryPosition(s, pivot, mid + 1, right)

RECURSIVE BinaryInsertionSort(_, _)
BinaryInsertionSort(s, start) ==
    IF start >= Len(s) THEN s
    ELSE LET pivot == s[start + 1]
             pos == BinaryPosition(s, pivot, 0, start)
         IN BinaryInsertionSort(SubSeq(s, 1, pos) \o <<pivot>> \o SubSeq(s, pos + 1, start)
                                \o SubSeq(s, start + 2, Len(s)), start + 1)

TimSort(s) ==
    IF Len(s) < 2 THEN s
    ELSE LET descending == CompareByDateDesc(s[2], s[1]) < 0
             run == CountRun(s, 3, descending)
             made == IF descending
                     THEN Reverse(SubSeq(s, 1, run)) \o SubSeq(s, run + 1, Len(s))
                     ELSE s
         IN BinaryInsertionSort(made, run)

\* combined.sort(comparator) as the engine computes it
SortByDateDesc(engine, s) == IF engine = "timsort" THEN TimSort(s) ELSE InsertionSort(s)

\* the window of the activity feed: .slice(0, 5)
FeedLimit == 5

\* recentCombinedActivity / recentActivity
RecentActivity(engine, ts, ds) == SliceFirst(SortByDateDesc(engine, Combined(ts, ds)), FeedLimit)

PlaceholderEntry == [name |-> "No Data", value |-> 1, isPlaceholder |-> TRUE]

\* a map update that overwrites the category's value instead of adding to it
PutCategoryOverwrite(map, t) ==
    IF \E k \in 1..Len(map) : map[k].name = t.category
    THEN [k \in 1..Len(map) |-> IF map[k].name = t.category
                                THEN [map[k] EXCEPT !.value = t.amount]
                                ELSE map[k]]
    ELSE Append(map, [name |-> t.category, value |-> 0 + t.amount])

\* categoryMap[t.category] = (categoryMap[t.category] || 0) + t.amount, the map
\* kept as the sequence of its keys in insertion order with their values
\* (Object.keys order for keys that are not array indices)
PutCategory(map, t) ==
    IF \E k \in 1..Len(map) : map[k].name = t.category
    THEN [k \in 1..Len(map) |-> IF map[k].name = t.category
                                THEN [map[k] EXCEPT !.value = map[k].value + t.amount]
                                ELSE map[k]]
    ELSE Append(map, [name |-> t.category, value |-> 0 + t.amount])

\* the forEach over the expenses
RECURSIVE CategoryMap(_)
CategoryMap(expenses) ==
    IF expenses = <<>> THEN <<>>
    ELSE PutCategory(CategoryMap(SubSeq(expenses, 1, Len(expenses) - 1)),
                     expenses[Len(expenses)])

\* a series that falls back to the placeholder only when no transaction is held
ChartDataByLength(ts) ==
    LET map == CategoryMap(SelectSeq(ts, LAMBDA t : t.type = "expense")) IN
    IF Len(ts) > 0
    THEN [k \in 1..Len(map) |->
            [name |-> map[k].name, value |-> map[k].value, isPlaceholder |-> FALSE]]
    ELSE <<PlaceholderEntry>>

\* chartData
ChartData(ts) ==
    LET map == CategoryMap(SelectSeq(ts, LAMBDA t : t.type = "expense")) IN
    IF Len(map) > 0
    THEN [k \in 1..Len(map) |->
            [name |-> map[k].name, value |-> map[k].value, isPlaceholder |-> FALSE]]
    ELSE <<PlaceholderEntry>>

\* new Date(t.date).toLocaleDateString('en-US', { day: 'numeric', month: 'short' })
DateLabel(date) ==
    CASE date = "2024-01-01" -> "Jan 1"
      [] date = "2024-01-02" -> "Jan 2"
      [] date = "2024-01-03" -> "Jan 3"
      [] OTHER -> "Invalid Date"

\* a window taken from the head of the list
TrendFromHead(ts) == SliceFirst(ts, 7)

\* const last7 = transactions.slice(-7)
Last7(ts) == SliceLast(ts, 7)

\* monthlyBarData / barData
BarData(ts) ==
    LET last7 == Last7(ts) IN
    IF Len(last7) > 0
    THEN [k \in 1..Len(last7) |->
            [date |-> DateLabel(last7[k].date), amount |-> last7[k].amount,
             type |-> last7[k].type]]
    ELSE <<[date |-> "Today", amount |-> 0, type |-> "expense"]>>

-----------------------------------------------------------------------------
(* Shopping views (src/index.tsx).                                         *)

\* a sort callback that orders each group by creation time ascending
CompareShopAscending(a, b) ==
    IF a.completed = b.completed THEN a.createdAt - b.createdAt
    ELSE IF a.completed THEN 1 ELSE 0 - 1

\* (a, b) => a.completed === b.completed ? b.createdAt - a.createdAt
\*                                        : (a.completed ? 1 : -1)
CompareShop(a, b) ==
    IF a.completed = b.completed THEN b.createdAt - a.createdAt
    ELSE IF a.completed THEN 1 ELSE 0 - 1

\* Array.prototype.sort with CompareShop, a consistent ordering: every stable
\* sort returns the same array, computed here by insertion from the right
RECURSIVE InsertShopItem(_, _)
InsertShopItem(sorted, x) ==
    IF sorted = <<>> THEN <<x>>
    ELSE LET n == Len(sorted) IN
         IF CompareShop(sorted[n], x) > 0
         THEN Append(InsertShopItem(SubSeq(sorted, 1, n - 1), x), sorted[n])
         ELSE Append(sorted, x)

\* sortedShoppingItems: [...shoppingItems].sort(CompareShop)
RECURSIVE SortedShoppingItems(_)
SortedShoppingItems(items) ==
    IF items = <<>> THEN <<>>
    ELSE InsertShopItem(SortedShoppingItems(SubSeq(items, 1, Len(items) - 1)),
                        items[Len(items)])

\* value || fallback for a number or null: null, 0 (and NaN) give the fallback
OrElse(nullable, fallback) ==
    IF nullable = <<>> \/ nullable[1] = 0 THEN fallback ELSE nullable[1]

\* (item.price || 0) * (item.qty || 1)
ItemCost(item) == OrElse(item.price, 0) * OrElse(item.qty, 1)

ItemCosts(items) == [k \in 1..Len(items) |-> ItemCost(items[k])]

\* shoppingTotals
ShoppingTotals(items) ==
    [total |-> SumSeq(ItemCosts(items)),
     completedPrice |-> SumSeq(ItemCosts(SelectSeq(items, LAMBDA it : it.completed))),
     itemCount |-> Len(items),
     completedCount |-> CompletedCount(items)]

\* a summary bar that is rendered whatever the list holds
SummaryBarAlways(items) == TRUE

\* {shoppingItems.length > 0 && ( <summary bar> )}
SummaryBarRendered(items) == Len(items) > 0

\* a displayed number as a fraction num/den, or NaN
NotANumber == [nan |-> TRUE, num |-> 0, den |-> 1]

\* Math.round((completedCount / itemCount) * 100); 0 / 0 is NaN
FulfillmentLabel(items) ==
    LET t == ShoppingTotals(items) IN
    IF t.itemCount = 0 THEN NotANumber
    ELSE [nan |-> FALSE,
          num |-> (200 * t.completedCount + t.itemCount) \div (2 * t.itemCount),
          den |-> 1]

\* width: (completedCount / (itemCount || 1)) * 100 %
ProgressWidth(items) ==
    LET t == ShoppingTotals(items) IN
    [nan |-> FALSE, num |-> t.completedCount * 100,
     den |-> IF t.itemCount = 0 THEN 1 ELSE t.itemCount]

\* the percentages the shopping tab computes in a render
DisplayedPercentages(items) ==
    IF SummaryBarRendered(items)
    THEN {FulfillmentLabel(items), ProgressWidth(items)}
    ELSE {}

-----------------------------------------------------------------------------
(* Focused specifications: the same program driven with the inputs a view  *)
(* needs and longer lists.                                                 *)

\* most transactions held at once under SpecChart
MaxChartTx == 3

ChartTxForms ==
    { [type |-> "expense", amount |-> a, category |-> c, date |-> "2024-01-02",
       note |-> ""] : a \in {"10", "2"}, c \in {"Food", "Transport"} }
    \cup { [type |-> "income", amount |-> "10", category |-> "Salary",
            date |-> "2024-01-01", note |-> ""] }

InitChart == Init /\ blob = NoBlob

NextChart ==
    \/ LoadEffect
    \/ SaveEffect
    \/ Rerender
    \/ \E f \in ChartTxForms, id \in Ids :
          Len(transactions) < MaxChartTx /\ SubmitTransaction(f, id)
    \/ \E i \in 1..MaxChartTx : DeleteTransaction(i)

\* transactions only, two expense categories
SpecChart == InitChart /\ [][NextChart]_vars

\* most records (transactions + debts) held at once under SpecFeed
MaxFeedRecords == 6

FeedDates == {"", "2024-01-01", "2024-01-02"}

FeedTxForms ==
    { [type |-> "expense", amount |-> "10", category |-> "Food", date |-> d,
       note |-> ""] : d \in FeedDates }

FeedDebtForms ==
    { [person |-> "Rahim", amount |-> "10", date |-> d, note |-> ""] : d \in FeedDates }

InitFeed == Init /\ blob = NoBlob /\ ~strict

NextFeed ==
    \/ LoadEffect
    \/ SaveEffect
    \/ Rerender
    \/ \E f \in FeedTxForms :
          RecordCount < MaxFeedRecords /\ SubmitTransaction(f, "a")
    \/ \E f \in FeedDebtForms :
          RecordCount < MaxFeedRecords /\ SubmitDebt(f, "a")

\* transactions and debts that differ in their dates only, enough of them
\* to overflow the window of the activity feed
SpecFeed == InitFeed /\ [][NextFeed]_vars

\* most shopping items held at once under SpecShop
MaxShopItems == 3

ShopListForms == { [name |-> "Rice", qty |-> "2", price |-> "10", uom |-> "kg"] }

InitShop == Init /\ variant = "index" /\ blob = NoBlob /\ ~strict

NextShop ==
    \/ LoadEffect
    \/ SaveEffect
    \/ Rerender
    \/ \E f \in ShopListForms, id \in Ids, now \in 1..MaxClock :
          Len(shoppingItems) < MaxShopItems /\ SubmitShopItem(f, id, now)
    \/ \E i \in 1..MaxShopItems : ToggleShopItem(i)
    \/ \E i \in 1..MaxShopItems : DeleteShopItem(i)
    \/ ClearCompleted

\* the shopping list alone, with lists long enough to mix both groups
SpecShop == InitShop /\ [][NextShop]_vars

\* most transactions created in a run of SpecPrompt
MaxPromptTx == 11

PromptTxForms ==
    { [type |-> "expense", amount |-> "10", category |-> "Food", date |-> "2024-01-02",
       note |-> ""] }

\* the number an identifier of SpecPrompt stands for
IdNumber(id) == CHOOSE k \in 1..MaxPromptTx : ToString(k) = id

\* the number of the newest transaction held (0 when none is)
NewestNumber(ts) ==
    LET held == {IdNumber(ts[k].id) : k \in 1..Len(ts)} IN
    IF held = {} THEN 0 ELSE CHOOSE m \in held : \A n \in held : n <= m

\* crypto.randomUUID() returning identifiers never seen before: they are
\* numbered in the order of creation
FreshId(ts) == ToString(1 + NewestNumber(ts))

InitPrompt == Init /\ variant = "App" /\ blob = NoBlob

NextPrompt ==
    \/ LoadEffect
    \/ SaveEffect
    \/ Rerender
    \/ \E f \in PromptTxForms :
          NewestNumber(transactions) < MaxPromptTx
          /\ SubmitTransaction(f, FreshId(transactions))
    \/ \E i \in 1..MaxPromptTx : DeleteTransaction(i)
    \/ Len(inflight) < MaxInflight /\ FetchAIInsights("ok")

\* src/App.tsx with transactions alone, more of them than the prompt takes
SpecPrompt == InitPrompt /\ [][NextPrompt]_vars

\* most transactions held at once under SpecCsv
MaxCsvTx == 2

CsvTxForms ==
    { [type |-> ty, amount |-> "10", category |-> "Food", date |-> "2024-01-02",
       note |-> n] : ty \in {"expense", "income"}, n \in {"", "lunch", "rice, dal"} }

InitCsv == Init /\ variant = "App" /\ blob = NoBlob

NextCsv ==
    \/ LoadEffect
    \/ SaveEffect
    \/ Rerender
    \/ \E f \in CsvTxForms, id \in Ids :
          Len(transactions) < MaxCsvTx /\ SubmitTransaction(f, id)
    \/ \E i \in 1..MaxCsvTx : DeleteTransaction(i)
    \/ ExportToCSV

\* src/App.tsx with transactions whose notes are free text, and the export
SpecCsv == InitCsv /\ [][NextCsv]_vars

\* totals: transactions.filter(...).reduce(...) and debts.filter(...).reduce(...);
\* filter returns new arrays and reduce only reads, so the stored arrays are
\* what they were
RecordsAfterTotals(ts, ds) ==
    LET view == Totals(ts, ds) IN [transactions |-> ts, debts |-> ds]

\* recentCombinedActivity: the spread of the two maps is a new array of new
\* objects; sort reorders that array (its receiver) and slice copies from it
RecordsAfterFeed(engine, ts, ds) ==
    LET combined == Combined(ts, ds)
        sorted == SortByDateDesc(engine, combined)
        view == SliceFirst(sorted, FeedLimit)
    IN [transactions |-> ts, debts |-> ds]

\* chartData and monthlyBarData: filter, forEach over the filtered array,
\* slice(-7) and map; none of them writes to transactions
TransactionsAfterCharts(ts) ==
    LET chart == ChartData(ts)
        bars == BarData(ts)
    IN ts

\* a sorted view computed by sorting the stored array itself
ItemsSortedInPlace(items) == SortedShoppingItems(items)

\* sortedShoppingItems: [...shoppingItems].sort(...); sort reorders its
\* receiver, which is the spread copy, and the stored array keeps its order
ItemsAfterSortedView(items) ==
    LET copy == items
        sortedCopy == SortedShoppingItems(copy)
    IN items

\* a render in which the memoised views are computed from the stored
\* collections; no setter is called, so the save effect does not run
RenderViews ==
    /\ pc = "ready"
    /\ \E engine \in Engines :
          LET afterTotals == RecordsAfterTotals(transactions, debts)
              afterFeed == RecordsAfterFeed(engine, afterTotals.transactions,
                                            afterTotals.debts)
          IN /\ transactions' = TransactionsAfterCharts(afterFeed.transactions)
             /\ debts' = afterFeed.debts
    /\ shoppingItems' = IF variant = "index"
                        THEN ItemsAfterSortedView(shoppingItems)
                        ELSE shoppingItems
    /\ last' = [op |-> "render", idx |-> 0, form |-> NoForm]
    /\ UNCHANGED <<variant, strict, pc, pass, queued, profile, blob, aiInsight,
                   isLoadingAI, inflight>>

\* most records (transactions + debts + shopping items) held at once under SpecLists
MaxListRecords == 3

ListTxForms ==
    { [type |-> "expense", amount |-> "10", category |-> "Food", date |-> "2024-01-02",
       note |-> ""],
      [type |-> "income", amount |-> "2", category |-> "Salary", date |-> "2024-01-01",
       note |-> "lunch"] }

ListDebtForms ==
    { [person |-> "Rahim", amount |-> "10", date |-> "2024-01-02", note |-> ""] }

InitLists == Init /\ blob = NoBlob /\ ~strict

NextLists ==
    \/ LoadEffect
    \/ SaveEffect
    \/ Rerender
    \/ \E f \in ListTxForms, id \in Ids :
          RecordCount < MaxListRecords /\ SubmitTransaction(f, id)
    \/ \E i \in 1..MaxListRecords : DeleteTransaction(i)
    \/ \E f \in ListDebtForms, id \in Ids :
          RecordCount < MaxListRecords /\ SubmitDebt(f, id)
    \/ \E i \in 1..MaxListRecords : ToggleDebtStatus(i)
    \/ \E i \in 1..MaxListRecords : DeleteDebt(i)
    \/ \E f \in ShopListForms, id \in Ids :
          RecordCount < MaxListRecords /\ SubmitShopItem(f, id, 1)
    \/ \E i \in 1..MaxListRecords : ToggleShopItem(i)
    \/ \E i \in 1..MaxListRecords : DeleteShopItem(i)
    \/ ClearCompleted
    \/ RenderViews

\* the three collections with valid submissions only
SpecLists == InitLists /\ [][NextLists]_vars

\* most transactions held at once under SpecInsight
MaxInsightTx == 2

InitInsight == Init /\ variant = "App" /\ blob = NoBlob

\* the promise of a pending service call settles
ServiceSettles == \E i \in 1..MaxInflight, a \in ServiceAnswers : InsightSettles(i, a)

NextInsight ==
    \/ LoadEffect
    \/ SaveEffect
    \/ Rerender
    \/ \E f \in ListTxForms, id \in Ids :
          Len(transactions) < MaxInsightTx /\ SubmitTransaction(f, id)
    \/ \E i \in 1..MaxInsightTx : DeleteTransaction(i)
    \/ \E c \in ClientOutcomes : Len(inflight) < MaxInflight /\ FetchAIInsights(c)
    \/ ServiceSettles

\* src/App.tsx with the insight panel; a service call that is pending is
\* eventually answered (it resolves or it rejects)
SpecInsight == InitInsight /\ [][NextInsight]_vars /\ WF_vars(ServiceSettles)

-----------------------------------------------------------------------------
(* Properties.                                                             *)

\* sum of the amounts of s at the positions in I
RECURSIVE SumAt(_, _)
SumAt(s, I) ==
    IF I = {} THEN 0
    ELSE LET i == CHOOSE k \in I : TRUE IN s[i].amount + SumAt(s, I \ {i})

PositionsOfType(ty) == {i \in 1..Len(transactions) : transactions[i].type = ty}

\* C1: in every reachable state totals.income is the sum of amount over the
\* income transactions, totals.expense the sum over the expense transactions,
\* and totals.balance is income minus expense.
C1_TotalsAreSums ==
    LET t == Totals(transactions, debts) IN
    /\ t.income = SumAt(transactions, PositionsOfType("income"))
    /\ t.expense = SumAt(transactions, PositionsOfType("expense"))
    /\ t.balance = SumAt(transactions, PositionsOfType("income"))
                   - SumAt(transactions, PositionsOfType("expense"))

\* a delete has left an income and an expense transaction behind
C1_Witness ==
    /\ last.op = "deleteTransaction"
    /\ PositionsOfType("income") /= {}
    /\ PositionsOfType("expense") /= {}

PendingDebtNow == Totals(transactions, debts).pendingDebt

\* C2: pendingDebt is the sum of amount over the pending debts; toggling the
\* clicked debt from pending to repaid lowers it by exactly that debt's amount,
\* toggling it back restores it, and deleting a repaid debt leaves it unchanged.
C2_PendingDebt ==
    /\ [](PendingDebtNow =
            SumAt(debts, {i \in 1..Len(debts) : debts[i].status = "pending"}))
    /\ [][ /\ last'.op = "toggleDebtStatus" =>
                LET d == debts[last'.idx] IN
                PendingDebtNow' = IF d.status = "pending"
                                  THEN PendingDebtNow - d.amount
                                  ELSE PendingDebtNow + d.amount
           /\ (last'.op = "deleteDebt" /\ debts[last'.idx].status = "repaid") =>
                PendingDebtNow' = PendingDebtNow ]_vars

UniqueIds(s) == \A i, j \in 1..Len(s) : i /= j => s[i].id /= s[j].id

\* C3: in every reachable state no two transactions share an id, no two debts
\* share an id and no two shopping items share an id, whatever identifier the
\* generator returned on each creation.
C3_UniqueIds == UniqueIds(transactions) /\ UniqueIds(debts) /\ UniqueIds(shoppingItems)

\* a submission the claim calls invalid: a missing or non-numeric transaction
\* amount, a missing debt person or a missing or non-numeric debt amount, a
\* missing shopping item name
InvalidSubmission(l) ==
    \/ l.op = "submitTransaction" /\ l.form.amount \notin NumericTexts
    \/ l.op = "submitDebt" /\ (l.form.person = "" \/ l.form.amount \notin NumericTexts)
    \/ l.op = "submitShopItem" /\ l.form.name = ""

\* C4: a submission with a non-numeric amount or a missing required field is
\* rejected before any mutation: the collections, the profile and the persisted
\* blob are what they were, so no partial or defaulted record is created.
C4_InvalidSubmissionRejected ==
    [][ InvalidSubmission(last') =>
          UNCHANGED <<transactions, debts, shoppingItems, profile, blob>> ]_vars

\* rejected submissions of each form have happened (src/index.tsx, whose
\* handlers have no check of their own)
C4_Witness ==
    /\ variant = "index"
    /\ pc = "ready"
    /\ InvalidSubmission(last)
    /\ last.op = "submitDebt"
    /\ last.form.person = ""
    /\ Len(transactions) > 0

MutatingOps ==
    {"submitTransaction", "deleteTransaction", "submitDebt", "toggleDebtStatus",
     "deleteDebt", "submitShopItem", "toggleShopItem", "deleteShopItem",
     "clearCompleted", "saveProfile"}

\* C5: after every mutating action the persisted blob is the serialization of
\* the whole in-memory snapshot: transactions, debts, profile, and the shopping
\* items in the variant that has them.
C5_BlobIsSnapshot ==
    (pc = "ready" /\ last.op \in MutatingOps) =>
        /\ blob.kind = "object"
        /\ blob.has = (IF variant = "App" THEN {"transactions", "debts", "profile"}
                       ELSE {"transactions", "debts", "shoppingItems", "profile"})
        /\ blob.transactions = transactions
        /\ blob.debts = debts
        /\ blob.profile = profile
        /\ variant = "index" => blob.shoppingItems = shoppingItems

\* a debt was toggled while transactions and a changed profile are held
C5_Witness ==
    /\ pc = "ready"
    /\ last.op = "toggleDebtStatus"
    /\ Len(transactions) > 0
    /\ profile /= DefaultProfile


\* C6: once startup is over and before any user action, a blob that failed to
\* parse leaves the empty lists and the profile {Guest User, 15000}; of a blob
\* that parsed, each field present is loaded as stored and each absent field
\* takes its default.  (last.form is the blob found at mount.)
C6_StartupSnapshot ==
    (pc = "ready" /\ last.op = "mount") =>
        LET b == last.form IN
        IF b.kind /= "object"
        THEN /\ transactions = <<>>
             /\ debts = <<>>
             /\ shoppingItems = <<>>
             /\ profile = [name |-> "Guest User", monthlyBudget |-> 15000]
        ELSE /\ transactions = (IF "transactions" \in b.has THEN b.transactions ELSE <<>>)
             /\ debts = (IF "debts" \in b.has THEN b.debts ELSE <<>>)
             /\ variant = "index" =>
                  shoppingItems = (IF "shoppingItems" \in b.has
                                   THEN b.shoppingItems ELSE <<>>)
             /\ profile = (IF "profile" \in b.has THEN b.profile
                           ELSE [name |-> "Guest User", monthlyBudget |-> 15000])

\* C7: getFinancialInsights never rejects; on a failure it resolves to exactly
\* the fallback, and the value it resolves to always carries tips.
C7_InsightAlwaysResolves ==
    (last.op \in {"fetchAIInsights", "insightSettled"} /\ last.form.settled /= "pending") =>
        /\ last.form.settled = "resolved"
        /\ last.form.failure => last.form.value = FallbackInsight
        /\ last.form.value.hasTips

\* a is a later date than b
Later(a, b) == ~IsInvalidDate(a) /\ ~IsInvalidDate(b) /\ GetTime(a) > GetTime(b)

Occurrences(s, x) == Cardinality({k \in 1..Len(s) : s[k] = x})

\* C8: the activity feed holds min(5, transactions + debts) entries of the
\* concatenation of the transactions and the projected debts, is empty when both
\* lists are empty, is sorted by date descending, and no omitted record has a
\* later date than an included one.
C8_FeedSortedAndTruncated ==
    \A e \in Engines :
        LET feed == RecentActivity(e, transactions, debts)
            all == [k \in 1..Len(transactions) |->
                      [id |-> transactions[k].id, type |-> transactions[k].type,
                       amount |-> transactions[k].amount,
                       category |-> transactions[k].category,
                       date |-> transactions[k].date, note |-> transactions[k].note,
                       source |-> "transaction"]]
                   \o [k \in 1..Len(debts) |->
                         [id |-> debts[k].id, type |-> "debt", amount |-> debts[k].amount,
                          category |-> "Dhar", date |-> debts[k].date,
                          note |-> debts[k].person, source |-> "debt"]]
        IN
        /\ Len(feed) = Min(5, Len(transactions) + Len(debts))
        /\ (transactions = <<>> /\ debts = <<>>) => feed = <<>>
        /\ \A x \in Range(feed) : Occurrences(feed, x) <= Occurrences(all, x)
        /\ \A i, j \in 1..Len(feed) : i < j => ~Later(feed[j].date, feed[i].date)
        /\ \A x \in Range(all), y \in Range(feed) :
              Occurrences(feed, x) < Occurrences(all, x) => ~Later(x.date, y.date)

ExpensePositions == PositionsOfType("expense")

FirstSeen(name) ==
    CHOOSE i \in ExpensePositions :
        /\ transactions[i].category = name
        /\ \A k \in ExpensePositions : transactions[k].category = name => i <= k

\* C9: when expenses exist the category series holds exactly one entry per
\* category label of the expense transactions, its value the sum of their
\* amounts, isPlaceholder false, in the order in which the labels are first
\* seen in the stored sequence; income transactions contribute nothing.
C9_CategorySeries ==
    ExpensePositions /= {} =>
        LET cd == ChartData(transactions) IN
        /\ {cd[k].name : k \in 1..Len(cd)} =
              {transactions[i].category : i \in ExpensePositions}
        /\ \A k, l \in 1..Len(cd) : k /= l => cd[k].name /= cd[l].name
        /\ \A k \in 1..Len(cd) :
              /\ cd[k].value = SumAt(transactions,
                                     {i \in ExpensePositions :
                                        transactions[i].category = cd[k].name})
              /\ cd[k].isPlaceholder = FALSE
        /\ \A k, l \in 1..Len(cd) : k < l => FirstSeen(cd[k].name) < FirstSeen(cd[l].name)

\* Transport, Food and Transport again: two expenses fold into one entry
C9_Witness ==
    /\ Len(transactions) = 3
    /\ transactions[1].type = "expense" /\ transactions[1].category = "Transport"
    /\ transactions[2].type = "expense" /\ transactions[2].category = "Food"
    /\ transactions[3].type = "expense" /\ transactions[3].category = "Transport"
    /\ Len(ChartData(transactions)) = 2

\* C10: the category series is exactly the one placeholder entry if and only if
\* no expense transaction is held; otherwise no entry is a placeholder.
C10_PlaceholderIffNoExpense ==
    LET cd == ChartData(transactions) IN
    /\ (cd = <<[name |-> "No Data", value |-> 1, isPlaceholder |-> TRUE]>>)
          <=> (ExpensePositions = {})
    /\ ExpensePositions /= {} => \A k \in 1..Len(cd) : ~cd[k].isPlaceholder

\* only income transactions are held
C10_Witness ==
    /\ Len(transactions) = 2
    /\ \A i \in 1..Len(transactions) : transactions[i].type = "income"
    /\ ChartData(transactions) = <<PlaceholderEntry>>


\* C11: the sorted shopping view is a permutation of the stored items in which
\* every incomplete item precedes every completed one and, within each group,
\* creation timestamps are in descending order.
C11_SortedShoppingView ==
    LET view == SortedShoppingItems(shoppingItems) IN
    /\ Len(view) = Len(shoppingItems)
    /\ \A x \in Range(shoppingItems) :
          Occurrences(view, x) = Occurrences(shoppingItems, x)
    /\ \A i, j \in 1..Len(view) :
          i < j => /\ ~(view[i].completed /\ ~view[j].completed)
                   /\ view[i].completed = view[j].completed =>
                         view[i].createdAt >= view[j].createdAt

\* a completed item is stored ahead of a later-created incomplete one, so the
\* view differs from the stored order
C11_Witness ==
    /\ Len(shoppingItems) = 3
    /\ shoppingItems[1].completed
    /\ ~shoppingItems[2].completed
    /\ shoppingItems[3].completed
    /\ shoppingItems[1].createdAt > shoppingItems[3].createdAt
    /\ SortedShoppingItems(shoppingItems) /= shoppingItems


\* C12: toggleShopItem(id) flips the completed flag of exactly one item, the
\* clicked one, leaving its other fields, every other item and the stored order
\* untouched; for an id that no item has, the list is unchanged.
C12_ToggleFlipsExactlyOne ==
    /\ [](\A id \in Ids :
            (\A k \in 1..Len(shoppingItems) : shoppingItems[k].id /= id) =>
                ToggleCompletedById(shoppingItems, id) = shoppingItems)
    /\ [][ last'.op = "toggleShopItem" =>
             /\ Len(shoppingItems') = Len(shoppingItems)
             /\ \A k \in 1..Len(shoppingItems) :
                   shoppingItems'[k] =
                      IF k = last'.idx
                      THEN [shoppingItems[k] EXCEPT !.completed = ~shoppingItems[k].completed]
                      ELSE shoppingItems[k] ]_vars


\* C13: toggling the same shopping item twice in a row returns the shopping list
\* to exactly the state before the first toggle, so the sorted view, and with it
\* the item's position among its same-completion-state peers, is as before.
C13_ToggleTwiceRestores ==
    (last.op = "toggleShopItem" /\ last.form.again) =>
        /\ shoppingItems = last.form.origin
        /\ SortedShoppingItems(shoppingItems) = SortedShoppingItems(last.form.origin)
        /\ last.form.items /= last.form.origin

\* the second of two toggles of the same card has run on a list with a peer in
\* each group
C13_Witness ==
    /\ last.op = "toggleShopItem"
    /\ last.form.again
    /\ Len(shoppingItems) = 3
    /\ \E k \in 1..3 : k /= last.idx /\ shoppingItems[k].completed
    /\ \E k \in 1..3 : k /= last.idx /\ ~shoppingItems[k].completed


\* the items of s at the positions in I, in their order in s
RECURSIVE ItemsAt(_, _)
ItemsAt(s, I) ==
    IF s = <<>> THEN <<>>
    ELSE LET rest == ItemsAt(SubSeq(s, 1, Len(s) - 1), I) IN
         IF Len(s) \in I THEN Append(rest, s[Len(s)]) ELSE rest

\* C14: clearCompleted removes every completed shopping item and nothing else:
\* the list becomes the previously incomplete items in their previous relative
\* order, and transactions, debts and profile are unchanged.
C14_ClearCompleted ==
    [][ last'.op = "clearCompleted" =>
          /\ shoppingItems' =
                ItemsAt(shoppingItems,
                        {k \in 1..Len(shoppingItems) : ~shoppingItems[k].completed})
          /\ \A k \in 1..Len(shoppingItems') : ~shoppingItems'[k].completed
          /\ UNCHANGED <<transactions, debts, profile>> ]_vars

\* a clear has removed completed items and kept two incomplete ones created at
\* different times
C14_Witness ==
    /\ last.op = "clearCompleted"
    /\ Len(shoppingItems) = 2
    /\ shoppingItems[1].createdAt /= shoppingItems[2].createdAt


\* price times quantity of an item: an absent price counts as 0, an absent
\* quantity as 1, a stored quantity as it is
PriceTimesQuantity(item) ==
    (IF item.price = <<>> THEN 0 ELSE item.price[1])
    * (IF item.qty = <<>> THEN 1 ELSE item.qty[1])

RECURSIVE SumOfCosts(_, _)
SumOfCosts(items, I) ==
    IF I = {} THEN 0
    ELSE LET i == CHOOSE k \in I : TRUE IN
         PriceTimesQuantity(items[i]) + SumOfCosts(items, I \ {i})

\* C15: shoppingTotals.total is the sum over all items of price times quantity
\* (absent price 0, absent quantity 1, a stored quantity, 0 included, as it is),
\* and shoppingTotals.completedPrice is the same sum over the completed items.
C15_ShoppingTotals ==
    LET t == ShoppingTotals(shoppingItems) IN
    /\ t.total = SumOfCosts(shoppingItems, 1..Len(shoppingItems))
    /\ t.completedPrice =
          SumOfCosts(shoppingItems,
                     {k \in 1..Len(shoppingItems) : shoppingItems[k].completed})


\* C16: no render computes a NaN or infinite completion percentage, for the
\* label and for the progress-bar width alike, and with an empty shopping list
\* no percentage other than 0 is computed.
C16_PercentageGuarded ==
    /\ \A p \in DisplayedPercentages(shoppingItems) : ~p.nan /\ p.den /= 0
    /\ shoppingItems = <<>> =>
          /\ \A p \in DisplayedPercentages(shoppingItems) : p.num = 0
          /\ ProgressWidth(shoppingItems).num = 0

\* the list has been emptied by clearing its completed items
C16_Witness ==
    /\ last.op = "clearCompleted"
    /\ shoppingItems = <<>>
    /\ variant = "index"
    /\ pc = "ready"


\* C16 as stated: with an empty shopping list a completion percentage is shown
\* and it is 0, for the label and for the progress-bar width.
C16_EmptyListShowsZero ==
    shoppingItems = <<>> =>
        /\ DisplayedPercentages(shoppingItems) /= {}
        /\ \A p \in DisplayedPercentages(shoppingItems) : ~p.nan /\ p.num = 0


\* s is t with some of its elements removed
IsSubsequence(s, t) ==
    \E I \in SUBSET (1..Len(t)) : s = ItemsAt(t, I)

\* C17: a debt is created with status pending; toggling a debt switches its
\* status between pending and repaid and changes nothing else; whatever the
\* action, a debt keeps the amount and the counterparty name it was created
\* with for as long as it exists.
C17_DebtLifecycle ==
    [][ /\ (last'.op = "submitDebt" /\ debts' /= debts) =>
              /\ debts' = <<debts'[1]>> \o debts
              /\ debts'[1].status = "pending"
              /\ debts'[1].person = last'.form.person
              /\ debts'[1].amount = NumberOf(last'.form.amount)
        /\ last'.op = "toggleDebtStatus" =>
              /\ Len(debts') = Len(debts)
              /\ \A k \in 1..Len(debts) :
                    debts'[k] =
                       IF k = last'.idx
                       THEN [debts[k] EXCEPT
                               !.status = IF debts[k].status = "pending"
                                          THEN "repaid" ELSE "pending"]
                       ELSE debts[k]
              /\ UNCHANGED <<transactions, shoppingItems, profile>>
        /\ last'.op = "deleteDebt" => IsSubsequence(debts', debts)
        /\ (pc = "ready" /\ last'.op \notin {"submitDebt", "deleteDebt"}) =>
              /\ Len(debts') = Len(debts)
              /\ \A k \in 1..Len(debts) :
                    /\ debts'[k].amount = debts[k].amount
                    /\ debts'[k].person = debts[k].person ]_vars


\* C18: the transactions handed to the insight service are the 10 most
\* recently created ones (all of them when fewer than 10 exist): none that is
\* left out was created after one that is handed over.
C18_PromptHoldsMostRecent ==
    (last.op = "fetchAIInsights" /\ last.form.settled = "pending") =>
        LET recent == last.form.recent IN
        /\ Len(recent) = Min(10, Len(transactions))
        /\ Range(recent) \subseteq Range(transactions)
        /\ \A t \in Range(transactions) \ Range(recent), r \in Range(recent) :
              IdNumber(t.id) < IdNumber(r.id)


\* C19 as stated: nothing guards a second invocation of the insight fetch while
\* an earlier one is unresolved: the button that starts it stays enabled.
C19_SecondInvocationUnguarded ==
    (pc = "ready" /\ variant = "App" /\ Len(inflight) > 0 /\ aiInsight.isNull) =>
        InsightButtonEnabled

\* C19: at most one invocation of the insight fetch is in flight, the button
\* that starts it being disabled from the click until the invocation resolves;
\* when it resolves, aiInsight is the value it resolved to.
C19_AtMostOneInFlight ==
    /\ [](/\ Len(inflight) <= 1
          /\ Len(inflight) = 1 => (isLoadingAI /\ ~InsightButtonEnabled))
    /\ [][last'.op = "insightSettled" =>
            /\ Len(inflight) = 1
            /\ aiInsight' = last'.form.value
            /\ ~isLoadingAI']_vars

\* an invocation is in flight while transactions are held
C19_Witness ==
    /\ variant = "App"
    /\ Len(inflight) = 1
    /\ isLoadingAI
    /\ last.op = "fetchAIInsights"
    /\ Len(transactions) > 0


\* C20: in every reachable state every stored transaction amount and every
\* stored debt amount is non-negative.
C20_NonNegativeAmounts ==
    /\ \A k \in 1..Len(transactions) : transactions[k].amount >= 0
    /\ \A k \in 1..Len(debts) : debts[k].amount >= 0


\* C21: the CSV export emits the header row Date,Type,Category,Amount,Note and
\* then exactly one row per stored transaction, in stored order, each row
\* carrying the transaction's date, type, category, amount and note as five
\* fields; the export changes no state.
C21_CsvExport ==
    /\ [](last.op = "exportToCSV" =>
            LET lines == last.form.lines IN
            /\ Len(lines) = 1 + Len(transactions)
            /\ lines[1] = <<"Date", "Type", "Category", "Amount", "Note">>
            /\ \A k \in 1..Len(transactions) :
                  /\ Len(lines[k + 1]) = 5
                  /\ lines[k + 1][1] = transactions[k].date
                  /\ lines[k + 1][2] = transactions[k].type
                  /\ lines[k + 1][3] = transactions[k].category
                  /\ lines[k + 1][4] = ToString(transactions[k].amount)
                  /\ lines[k + 1][5] = transactions[k].note)
    /\ [][last'.op = "exportToCSV" =>
            UNCHANGED <<transactions, debts, shoppingItems, profile, blob, aiInsight,
                        isLoadingAI>>]_vars


\* the dates of the concatenation, each with its position in the concatenation
DatedPositions(ts, ds) ==
    LET c == Combined(ts, ds) IN [k \in 1..Len(c) |-> [date |-> c[k].date, pos |-> k]]

C23_TrendTakesOldest ==
    /\ [](LET n == Len(transactions)
              m == Min(7, n)
              series == BarData(transactions)
          IN n > 0 =>
               /\ Len(series) = m
               /\ \A k \in 1..m :
                     LET t == transactions[n - m + k] IN
                     /\ series[k].amount = t.amount
                     /\ series[k].type = t.type
                     /\ series[k].date = "Jan 2"
               /\ Last7(transactions) = SubSeq(transactions, n - m + 1, n)
               /\ \A i \in 1..(n - m), j \in (n - m + 1)..n :
                     IdNumber(transactions[i].id) > IdNumber(transactions[j].id))
    /\ [][(last'.op = "submitTransaction" /\ Len(transactions) >= 7
           /\ transactions' /= transactions) =>
             /\ BarData(transactions') = BarData(transactions)
             /\ \A r \in Range(Last7(transactions')) : r.id /= transactions'[1].id]_vars

\* an eighth transaction has just been added
C23_Witness ==
    /\ last.op = "submitTransaction"
    /\ Len(transactions) = 8
    /\ IdNumber(transactions[1].id) = 8


\* s is t with one new element put in front
Prepended(s, t) == Len(s) = Len(t) + 1 /\ SubSeq(s, 2, Len(s)) = t

\* C24: creating a transaction, a debt or a shopping item prepends it: the new
\* record is the first element of its collection, the records stored before
\* follow it in their previous order, and the other collections and the
\* profile are unchanged.
C24_CreationPrepends ==
    [][ /\ (last'.op = "submitTransaction" /\ transactions' /= transactions) =>
              /\ Prepended(transactions', transactions)
              /\ transactions'[1].type = last'.form.type
              /\ transactions'[1].category = last'.form.category
              /\ transactions'[1].date = last'.form.date
              /\ transactions'[1].note = last'.form.note
              /\ UNCHANGED <<debts, shoppingItems, profile>>
        /\ (last'.op = "submitDebt" /\ debts' /= debts) =>
              /\ Prepended(debts', debts)
              /\ debts'[1].person = last'.form.person
              /\ debts'[1].date = last'.form.date
              /\ UNCHANGED <<transactions, shoppingItems, profile>>
        /\ (last'.op = "submitShopItem" /\ shoppingItems' /= shoppingItems) =>
              /\ Prepended(shoppingItems', shoppingItems)
              /\ shoppingItems'[1].name = last'.form.name
              /\ ~shoppingItems'[1].completed
              /\ UNCHANGED <<transactions, debts, profile>>
        /\ (pc = "ready" /\ last'.op \in {"submitTransaction", "submitDebt", "submitShopItem"}) =>
              RecordCount' = RecordCount + 1 ]_vars

\* a record of each kind is held and the newest transaction differs from the
\* one stored before it
C24_Witness ==
    /\ last.op = "submitTransaction"
    /\ Len(transactions) = 2
    /\ transactions[1].type /= transactions[2].type
    /\ Len(debts) + Len(shoppingItems) = 1


\* s without its i-th element
RemoveAt(s, i) == SubSeq(s, 1, i - 1) \o SubSeq(s, i + 1, Len(s))

\* C25: deleting a transaction, a debt or a shopping item removes the clicked
\* record and nothing else: every other record of the collection remains with
\* its fields and in the same relative order, the other collections are
\* untouched, and no step other than a creation or a deletion changes the
\* stored transactions.
C25_DeleteRemovesOnlyThatRecord ==
    [][ pc = "ready" =>
          /\ last'.op = "deleteTransaction" =>
                /\ transactions' = RemoveAt(transactions, last'.idx)
                /\ UNCHANGED <<debts, shoppingItems, profile>>
          /\ last'.op = "deleteDebt" =>
                /\ debts' = RemoveAt(debts, last'.idx)
                /\ UNCHANGED <<transactions, shoppingItems, profile>>
          /\ last'.op = "deleteShopItem" =>
                /\ shoppingItems' = RemoveAt(shoppingItems, last'.idx)
                /\ UNCHANGED <<transactions, debts, profile>>
          /\ last'.op \notin {"submitTransaction", "deleteTransaction"} =>
                transactions' = transactions ]_vars


C27_RestartRoundTrip ==
    (pc = "ready" /\ last.op = "mount" /\ last.form.kind = "object"
       /\ last.form.has = SavedKeys(variant)) =>
        /\ transactions = last.form.transactions
        /\ debts = last.form.debts
        /\ variant = "index" => shoppingItems = last.form.shoppingItems
        /\ profile = last.form.profile
        /\ blob = last.form


\* C28: every invocation of fetchAIInsights eventually sets isLoadingAI back to
\* false and aiInsight to a non-null value, whatever the insight service does:
\* whenever isLoadingAI is true, a state follows in which it is false and
\* aiInsight is not null.
C28_LoadingEventuallyEnds == isLoadingAI ~> (~isLoadingAI /\ ~aiInsight.isNull)

\* C29: once aiInsight is non-null no further fetch is started and aiInsight
\* never changes again, whatever transaction mutations follow: from a state
\* with an insight, no step changes aiInsight, isLoadingAI or the pending calls.
C29_InsightIsFinal ==
    [][ ~aiInsight.isNull =>
          /\ aiInsight' = aiInsight
          /\ isLoadingAI' = isLoadingAI
          /\ inflight' = inflight ]_vars

\* an insight is displayed and a transaction has been added after it
C29_Witness ==
    /\ ~aiInsight.isNull
    /\ last.op = "submitTransaction"
    /\ Len(transactions) = 2


\* C30: the activity feed does not depend on debt status: every debt, pending
\* or repaid, has its entry in the merged list (and in the feed while the
\* window is not full), and a toggle of a debt's status leaves the feed's
\* entries and their order unchanged.
C30_FeedIgnoresDebtStatus ==
    /\ [](\A e \in Engines :
            LET merged == Combined(transactions, debts)
                feed == RecentActivity(e, transactions, debts)
            IN /\ Len(merged) = Len(transactions) + Len(debts)
               /\ \A k \in 1..Len(debts) :
                     /\ merged[Len(transactions) + k].source = "debt"
                     /\ merged[Len(transactions) + k].id = debts[k].id
                     /\ merged[Len(transactions) + k].amount = debts[k].amount
               /\ Len(merged) <= FeedLimit =>
                     Len(SelectSeq(feed, LAMBDA x : x.source = "debt")) = Len(debts))
    /\ [][ (pc = "ready" /\ last'.op = "toggleDebtStatus") =>
             \A e \in Engines :
                RecentActivity(e, transactions', debts') =
                   RecentActivity(e, transactions, debts) ]_vars

\* a debt has just been marked repaid while a transaction is held too
C30_Witness ==
    /\ last.op = "toggleDebtStatus"
    /\ Len(debts) > 0
    /\ debts[last.idx].status = "repaid"
    /\ Len(transactions) > 0
    /\ Len(SelectSeq(RecentActivity("timsort", transactions, debts),
                     LAMBDA x : x.source = "debt")) = Len(debts)

====
